---------------------------- MODULE Spec2Model ----------------------------
(***************************************************************************)
(* Credential lifecycle of batybot: the token store (ConfigManager and     *)
(* TokenStore), the start-up authorization flow with its single-use HTTP   *)
(* callback server, the two token refresh loops (tokenRefreshWatch, one    *)
(* per TokenType), the shared cancellation context and process shutdown.   *)
(*                                                                         *)
(* Time is a discrete clock `now`.  Durations are counted in ticks; the    *)
(* 10 minute margin and the 30 second back-off keep their order            *)
(* (BackOff < Margin) but not their ratio.  Start-up (configuration load   *)
(* and authorization) is modelled as taking no clock time.                 *)
(*                                                                         *)
(* SpecStartup is the process from its start to the moment main has        *)
(* started its goroutines; Spec is the running process from that moment    *)
(* on; SpecValid applies the validity check to records and times.          *)
(***************************************************************************)
EXTENDS Integers, Sequences, FiniteSets, TLC

VARIABLES
    now,        \* the wall clock, in ticks
    tokens,     \* cm.tokens: TokenType -> UserTokens (in memory)
    file,       \* tokens.json, the durable file
    mainPc,     \* position of the main goroutine (setup / main / shutdown)
    flowId,     \* the identity the authorization flow is working on
    srv,        \* the session server (struct server) made for each identity
    req,        \* the /callback request being handled, if any
    hits,       \* callback requests each server has received
    sleepers,   \* goroutines spawned by each server's handler, not yet past s.done <- true
    code,       \* the code authCode returned to getToken
    last,       \* what the handler did with the last /callback request
    pc,         \* position of each tokenRefreshWatch goroutine
    tok,        \* tokenRefresh's local `token` (the snapshot it read)
    acc,        \* tokenRefresh's local `accessToken` (the new one)
    wake,       \* deadline of the timer a loop waits on in delay()
    ctxDone,    \* the shared context has been cancelled
    ircToken,   \* the token held by the irc client
    connPc,     \* position of the client.Connect goroutine
    graceLeft,  \* ticks left on shutdown's time.After
    writeErrs,  \* writes of tokens.json that have failed so far
    failAt,     \* history: when the identity's last refresh call failed, if it did
    lastSet,    \* history: the record passed to the identity's last SetTokens
    probe,      \* input of the isValid check (a record and a time)
    verdict,    \* output of the isValid check
    clientSecret, \* twitch.client_secret is configured (not "")
    mu,         \* cm.mu: "free" or the identity whose SetTokens holds the write lock
    wr,         \* position of each identity's SetTokens call and the record it was given
    exchanged   \* history: the codes the open session has sent to the provider so far

vars == <<now, tokens, file, mainPc, flowId, srv, req, hits, sleepers, code,
          last, pc, tok, acc, wake, ctxDone, ircToken, connPc, graceLeft, writeErrs,
          failAt, lastSet, probe, verdict, clientSecret, mu, wr,
          exchanged>>

storeVars == <<tokens, file, lastSet, writeErrs>>
authVars  == <<flowId, srv, req, hits, sleepers, code, last>>
loopVars  == <<pc, tok, acc, wake, failAt>>
probeVars == <<probe, verdict>>
envVars   == <<clientSecret, mu, wr, exchanged>>

---------------------------------------------------------------------------
(* Bounds of the model *)

MaxTime == 3        \* the clock stops here
MaxRefresh == 1     \* the provider issues at most this many renewals per credential
MaxHits == 2        \* callback requests per authorization session
MaxProbe == 5       \* times and expiries tried by the isValid check
MaxWriteErrors == 1 \* failed writes of tokens.json
MaxSets == 2        \* SetTokens calls per identity, when the store is taken on its own
MaxSessionHits == 3 \* callback requests, when one session is taken on its own

(* Program constants, in ticks *)

Margin == 2         \* 10 * time.Minute
BackOff == 1        \* 30 * time.Second
Grace == 1          \* 10 * time.Second (shutdown)
DoneCap == 1        \* make(chan bool, 1)

---------------------------------------------------------------------------
(* Values *)

BotTokenType == "bot"
BroadcasterTokenType == "broadcaster"
TokenType == {BotTokenType, BroadcasterTokenType}

\* Strings the program treats as opaque are tuples; the empty string is <<>>.
Empty == <<>>

\* twitch.user / twitch.broadcaster: the account expected for each identity
ExpectedUser(t) == IF t = BotTokenType THEN "botuser" ELSE "caster"
Accounts == {ExpectedUser(t) : t \in TokenType}

\* The zero value of UserTokens
ZeroTokens ==
    [AccessToken |-> Empty, RefreshToken |-> Empty, ExpiresAt |-> 0,
     UserID |-> Empty, Username |-> ""]

\* What the provider issues to account u as its n-th credential
AccessOf(u, n) == <<"access", u, n>>
RefreshOf(u, n) == <<"refresh", u, n>>
UserIDOf(u) == <<"uid", u>>

Credential(u, n, expiresAt) ==
    [AccessToken |-> AccessOf(u, n), RefreshToken |-> RefreshOf(u, n),
     ExpiresAt |-> expiresAt, UserID |-> UserIDOf(u), Username |-> u]

\* Lifetimes (expires_in) the provider hands out: inside and outside the margin
Lifetimes == {Margin - 1, Margin + 1}

---------------------------------------------------------------------------
(* time.Time arithmetic and UserTokens validity *)

Add(t, d) == t + d
After(t, u) == t > u
Until(t, at) == t - at

IsExpiredStrict(u, at) == ~ (at < Add(u.ExpiresAt, -Margin))

\* UserTokens.IsExpired at clock reading `at`
IsExpired(u, at) == After(at, Add(u.ExpiresAt, -Margin))

\* UserTokens.isValid at clock reading `at`
isValid(u, at) ==
    /\ u.AccessToken # Empty
    /\ u.RefreshToken # Empty
    /\ ~ IsExpired(u, at)

IsValidTokensNever(t) == FALSE

\* ConfigManager.IsValidBotTokens / IsValidBroadcasterTokens
IsValidTokens(t) == isValid(tokens[t], now)

\* Token.get's expires string and parseExpiresTime
FormatRFC3339Nano(t) == <<"RFC3339Nano", t>>
ParseRFC3339Nano(s) == s[2]
parseExpiresTime(s) == ParseRFC3339Nano(s)

\* Token.get: (token, refresh, expires) of provider credentials c
TokenGet(c, at) ==
    [token |-> c.AccessToken, refresh |-> c.RefreshToken,
     expires |-> FormatRFC3339Nano(Add(at, c.ExpiresIn))]

\* prefixToken
HasPrefix(s) == Len(s) > 0 /\ s[1] = "oauth:"
prefixToken(s) == IF HasPrefix(s) THEN s ELSE <<"oauth:">> \o s

---------------------------------------------------------------------------
(* The durable file and the store *)

ZeroStore == [t \in TokenType |-> ZeroTokens]

MissingFile == [kind |-> "missing", data |-> ZeroStore, old |-> ZeroTokens]
MalformedFile == [kind |-> "malformed", data |-> ZeroStore, old |-> ZeroTokens]
\* marshalJSON of a TokenStore: both records, every field
StoreFile(ts) == [kind |-> "store", data |-> ts, old |-> ZeroTokens]
\* the single-record layout written by saveTokensToFile
LegacyFile(access, refresh, expiresAt) ==
    [kind |-> "legacy", data |-> ZeroStore,
     old |-> [ZeroTokens EXCEPT !.AccessToken = access,
                                !.RefreshToken = refresh,
                                !.ExpiresAt = expiresAt]]

\* JSON in which the value of one identity's key has the wrong type (a number,
\* say) and the other identity's key holds record r: json.Unmarshal reports
\* the mismatch and still decodes the rest
MistypedFile(t, r) ==
    [kind |-> "mistyped", data |-> [ZeroStore EXCEPT ![t] = r], old |-> ZeroTokens]

LoadFromFileKeepingGarbage(f) ==
    IF f.kind \in {"store", "mistyped"} THEN f.data
    ELSE [t \in TokenType |-> [ZeroTokens EXCEPT !.AccessToken = <<"garbage">>]]

\* TokenStore.LoadFromFile into a zero TokenStore: a read error or a syntax
\* error leaves it untouched; JSON without the two keys leaves both records
\* zero; a value of the wrong type is skipped and the rest is decoded.
LoadFromFile(f) == IF f.kind \in {"store", "mistyped"} THEN f.data ELSE ZeroStore

\* writeFile may fail (the model lets it fail MaxWriteErrors times)
WriteOutcomes == IF writeErrs < MaxWriteErrors THEN BOOLEAN ELSE {TRUE}

\* ConfigManager.GetTokens: a copy of the record
GetTokens(t) == tokens[t]

NewRecord(access, refresh, expiresAt, userID, username) ==
    [AccessToken |-> access, RefreshToken |-> refresh, ExpiresAt |-> expiresAt,
     UserID |-> userID, Username |-> username]

SetTokensFlushFirst(t, r, writeOk) ==
    /\ tokens' = IF writeOk THEN [tokens EXCEPT ![t] = r] ELSE tokens
    /\ file' = IF writeOk THEN StoreFile([tokens EXCEPT ![t] = r]) ELSE file
    /\ lastSet' = [lastSet EXCEPT ![t] = [set |-> TRUE, rec |-> r]]
    /\ writeErrs' = IF writeOk THEN writeErrs ELSE writeErrs + 1

\* ConfigManager.SetTokens under the write lock: the record is replaced in
\* memory, then the whole store is written; a write error is only logged.
SetTokens(t, r, writeOk) ==
    /\ tokens' = [tokens EXCEPT ![t] = r]
    /\ file' = IF writeOk THEN StoreFile([tokens EXCEPT ![t] = r]) ELSE file
    /\ lastSet' = [lastSet EXCEPT ![t] = [set |-> TRUE, rec |-> r]]
    /\ writeErrs' = IF writeOk THEN writeErrs ELSE writeErrs + 1


---------------------------------------------------------------------------
(* The provider *)

\* The account and the generation a refresh token was issued for
Generation(r) == r[3]
Holder(r) == r[2]

\* An authorization code the provider handed to a browser logged in as u
CodeOf(u) == <<"code", u>>
Codes == {CodeOf(u) : u \in Accounts}

\* helix AccessCredentials answered to a code exchange / to a refresh
Exchanged(c, life) ==
    [AccessToken |-> AccessOf(c[2], 0), RefreshToken |-> RefreshOf(c[2], 0),
     ExpiresIn |-> life]
Refreshed(r, life) ==
    [AccessToken |-> AccessOf(Holder(r), Generation(r) + 1),
     RefreshToken |-> RefreshOf(Holder(r), Generation(r) + 1),
     ExpiresIn |-> life]

\* The provider can renew r (the model stops issuing at MaxRefresh)
CanRefresh(r) == r # Empty /\ Generation(r) < MaxRefresh

---------------------------------------------------------------------------
(* Initial state: the process starts, tokens.json is whatever was left *)

StoredExpiry == {1, Margin, Margin + 1}
StoredRecords(t) ==
    {ZeroTokens} \cup {Credential(ExpectedUser(t), 0, e) : e \in StoredExpiry}
StoredStores ==
    {[t \in TokenType |-> IF t = BotTokenType THEN b ELSE c] :
        b \in StoredRecords(BotTokenType), c \in StoredRecords(BroadcasterTokenType)}
MistypedFiles ==
    {MistypedFile(t, Credential(ExpectedUser(t), 0, Margin + 1)) : t \in TokenType}
InitialFiles ==
    {MissingFile, MalformedFile} \cup MistypedFiles
        \cup {StoreFile(ts) : ts \in StoredStores}

NoReq == [active |-> FALSE, to |-> BotTokenType, error |-> FALSE, code |-> Empty, exch |-> FALSE]
NoServer == [listening |-> FALSE, code |-> Empty, done |-> 0]
NoResponse == [resp |-> "none", exch |-> FALSE, hadCode |-> FALSE]
Unset == [set |-> FALSE, rec |-> ZeroTokens]
NoFail == [set |-> FALSE, at |-> 0]
NoProbe == [rec |-> ZeroTokens, at |-> 0]
NoSet == [pc |-> "idle", rec |-> ZeroTokens, ok |-> FALSE, n |-> 0]

InitCommon ==
    /\ now = 0
    /\ tokens = ZeroStore
    /\ mainPc = "load"
    /\ flowId = "none"
    /\ srv = [t \in TokenType |-> NoServer]
    /\ req = NoReq
    /\ hits = [t \in TokenType |-> 0]
    /\ sleepers = [t \in TokenType |-> 0]
    /\ code = Empty
    /\ last = NoResponse
    /\ pc = [t \in TokenType |-> "idle"]
    /\ tok = [t \in TokenType |-> ZeroTokens]
    /\ acc = [t \in TokenType |-> Empty]
    /\ wake = [t \in TokenType |-> 0]
    /\ ctxDone = FALSE
    /\ ircToken = Empty
    /\ connPc = "off"
    /\ failAt = [t \in TokenType |-> NoFail]
    /\ lastSet = [t \in TokenType |-> Unset]
    /\ graceLeft = 0
    /\ writeErrs = 0
    /\ mu = "free"
    /\ wr = [t \in TokenType |-> NoSet]
    /\ exchanged = {}

Init ==
    /\ InitCommon
    /\ clientSecret \in BOOLEAN
    /\ file \in InitialFiles
    /\ probe = NoProbe
    /\ verdict = "unset"

\* The process is running (log.Fatalf and the end of main stop every goroutine)
Alive == mainPc \notin {"fatal", "exited"}
\* main has started the refresh loops and the connection
Running == mainPc \in {"wait", "shutdown"}

---------------------------------------------------------------------------
(* Start-up: setup() up to the authorization flow *)

\* Config.validate, its last check: tokens.json is read into a store of its
\* own, and the client secret is required unless both records are valid
validate(f, at) ==
    ~ ((\E t \in TokenType : ~ isValid(LoadFromFile(f)[t], at)) /\ ~ clientSecret)

\* setup: InitConfig, that is newConfigManager: a validation error goes up to
\* setup, which ends the process (log.Fatalf); otherwise a zero TokenStore is
\* filled by LoadFromFile("tokens.json"), a load error is only logged, and
\* setup enters oauthFlow with the bot.
LoadConfig ==
    /\ mainPc = "load"
    /\ IF validate(file, now)
       THEN /\ tokens' = LoadFromFile(file)
            /\ mainPc' = "flow"
            /\ flowId' = BotTokenType
       ELSE /\ mainPc' = "fatal"
            /\ UNCHANGED <<tokens, flowId>>
    /\ UNCHANGED <<now, file, lastSet, writeErrs, srv, req, hits, sleepers, code,
                   last, loopVars, ctxDone, ircToken, connPc, graceLeft, probeVars, envVars>>

\* oauthFlow goes on to the broadcaster after the bot, and returns after it
FlowAdvance ==
    IF flowId = BotTokenType
    THEN mainPc' = "flow" /\ flowId' = BroadcasterTokenType
    ELSE mainPc' = "client" /\ flowId' = "none"

\* oauthFlow for the current identity: nothing to do when its record is valid,
\* otherwise the session server is set up and started (authCode, server.Start:
\* s.done is made, ListenAndServe runs, the caller blocks on <-s.done).
FlowCheck ==
    /\ mainPc = "flow"
    /\ IF IsValidTokens(flowId)
       THEN FlowAdvance /\ UNCHANGED <<srv, hits, exchanged>>
       ELSE /\ mainPc' = "session"
            /\ srv' = [srv EXCEPT ![flowId] = [listening |-> TRUE, code |-> Empty, done |-> 0]]
            /\ hits' = [hits EXCEPT ![flowId] = 0]
            /\ exchanged' = {}
            /\ UNCHANGED flowId
    /\ UNCHANGED <<now, storeVars, req, sleepers, code, last, loopVars, ctxDone,
                   ircToken, connPc, graceLeft, probeVars, clientSecret, mu, wr>>

\* A browser request reaches GET /callback of server t while its listener is
\* open.  `error` and `code` are its query parameters, `exch` is what the
\* provider will answer when asked to exchange that code.
CallbackHit(t) ==
    /\ Alive
    /\ srv[t].listening
    /\ ~ req.active
    /\ hits[t] < MaxHits
    /\ \E e \in BOOLEAN, c \in Codes \cup {Empty}, x \in BOOLEAN :
          req' = [active |-> TRUE, to |-> t, error |-> e, code |-> c, exch |-> x]
    /\ hits' = [hits EXCEPT ![t] = @ + 1]
    /\ UNCHANGED <<now, storeVars, mainPc, flowId, srv, sleepers, code, last,
                   loopVars, ctxDone, ircToken, connPc, graceLeft, probeVars, envVars>>

\* saveTokensToFile: the single-record layout, or an error that is only logged
saveTokensToFile(g, writeOk) ==
    /\ file' = IF writeOk
               THEN LegacyFile(g.token, g.refresh, ParseRFC3339Nano(g.expires))
               ELSE file
    /\ writeErrs' = IF writeOk THEN writeErrs ELSE writeErrs + 1

CallbackOutcomeCodeFirst(r) ==
    IF r.code = Empty THEN (IF r.error THEN "error" ELSE "nocode")
    ELSE IF ~ r.exch THEN "exchfail"
    ELSE "ok"

CallbackOutcomeNoCodeCheck(r) ==
    IF r.error THEN "error"
    ELSE IF ~ r.exch \/ r.code = Empty THEN "exchfail"
    ELSE "ok"

\* The /callback handler's way through its checks for request r: the `error`
\* parameter first, then the `code` parameter, then getUserToken(s.code)
CallbackOutcome(r) ==
    IF r.error THEN "error"             \* 400 "Authorization failed: <error> - <description>"
    ELSE IF r.code = Empty THEN "nocode" \* 400 "No authorization code received"
    ELSE IF ~ r.exch THEN "exchfail"     \* 500 "Failed to get access token: ..."
    ELSE "ok"                            \* the callback page

\* The /callback handler of server req.to
HandleCallback ==
    /\ Alive
    /\ req.active
    /\ req' = NoReq
    /\ LET out == CallbackOutcome(req)
       IN  /\ last' = [resp |-> out, exch |-> out \in {"exchfail", "ok"},
                       hadCode |-> req.code # Empty]
           /\ exchanged' = IF out \in {"exchfail", "ok"}          \* getUserToken(s.code)
                           THEN exchanged \cup {req.code} ELSE exchanged
           /\ IF out = "error"
              THEN UNCHANGED srv                                 \* return before s.code is set
              ELSE srv' = [srv EXCEPT ![req.to].code = req.code] \* s.code = q.Get("code")
           /\ IF out = "ok"
              THEN /\ \E life \in Lifetimes, writeOk \in WriteOutcomes :
                         saveTokensToFile(TokenGet(Exchanged(req.code, life), now), writeOk)
                   \* go func() { time.Sleep(2s); s.done <- true }()
                   /\ sleepers' = [sleepers EXCEPT ![req.to] = @ + 1]
              ELSE UNCHANGED <<file, writeErrs, sleepers>>       \* http.Error, return
    /\ UNCHANGED <<now, tokens, lastSet, mainPc, flowId, hits, code, loopVars,
                   ctxDone, ircToken, connPc, graceLeft, probeVars, clientSecret, mu, wr>>

SleeperSendBeforePage(t) ==
    /\ Alive
    /\ srv[t].listening
    /\ srv[t].done < DoneCap
    /\ srv' = [srv EXCEPT ![t].done = @ + 1]
    /\ UNCHANGED <<now, storeVars, mainPc, flowId, req, hits, sleepers, code, last,
                   loopVars, ctxDone, ircToken, connPc, graceLeft, probeVars, envVars>>

\* A goroutine spawned by the handler gets past s.done <- true (capacity 1)
SleeperSend(t) ==
    /\ Alive
    /\ sleepers[t] > 0
    /\ srv[t].done < DoneCap
    /\ srv' = [srv EXCEPT ![t].done = @ + 1]
    /\ sleepers' = [sleepers EXCEPT ![t] = @ - 1]
    /\ UNCHANGED <<now, storeVars, mainPc, flowId, req, hits, code, last, loopVars,
                   ctxDone, ircToken, connPc, graceLeft, probeVars, envVars>>

OnAuthErrorIgnored == FlowAdvance

\* setup: if err := oauthFlow(config); err != nil { log.Fatalf(...) }
OnAuthError == mainPc' = "fatal" /\ UNCHANGED flowId

ServerStartKeepListening(shutOk) ==
    /\ mainPc = "session"
    /\ srv[flowId].done > 0
    /\ srv' = [srv EXCEPT ![flowId].done = @ - 1]
    /\ IF shutOk /\ srv[flowId].code # Empty
       THEN mainPc' = "exchange" /\ code' = srv[flowId].code /\ UNCHANGED flowId
       ELSE OnAuthError /\ code' = Empty

\* server.Start past <-s.done: Shutdown closes the listener and may time out;
\* authCode then returns s.code, or an error when Start failed or s.code is "",
\* which getToken and oauthFlow hand on to setup.
ServerStart(shutOk) ==
    /\ mainPc = "session"
    /\ srv[flowId].done > 0
    /\ srv' = [srv EXCEPT ![flowId].done = @ - 1, ![flowId].listening = FALSE]
    /\ IF shutOk /\ srv[flowId].code # Empty
       THEN mainPc' = "exchange" /\ code' = srv[flowId].code /\ UNCHANGED flowId
       ELSE OnAuthError /\ code' = Empty

SessionEnd ==
    /\ \E shutOk \in BOOLEAN : ServerStart(shutOk)
    /\ UNCHANGED <<now, storeVars, req, hits, sleepers, last, loopVars,
                   ctxDone, ircToken, connPc, graceLeft, probeVars, envVars>>

\* oauthFlow on success: the record of the account that authorized is stored
\* for identity t (SetBotTokens / SetBroadcasterTokens)
PersistAuthorized(t, c, life, writeOk) ==
    LET g == TokenGet(Exchanged(c, life), now)
    IN  SetTokens(t, NewRecord(g.token, g.refresh, parseExpiresTime(g.expires),
                               UserIDOf(c[2]), c[2]),
                  writeOk)

\* getToken after authCode: getUserToken(code); an error goes up to setup
getToken(ok) ==
    /\ mainPc = "exchange"
    /\ exchanged' = exchanged \cup {code}
    /\ code' = Empty
    /\ IF ok
       THEN /\ \E life \in Lifetimes, writeOk \in WriteOutcomes :
                 PersistAuthorized(flowId, code, life, writeOk)
            /\ FlowAdvance
       ELSE OnAuthError /\ UNCHANGED storeVars

FlowExchange ==
    /\ \E ok \in BOOLEAN : getToken(ok)
    /\ UNCHANGED <<now, srv, req, hits, sleepers, last, loopVars, ctxDone,
                   ircToken, connPc, graceLeft, probeVars, clientSecret, mu, wr>>

MainStartDuringFlow ==
    /\ mainPc \in {"client", "flow"}
    /\ ircToken' = prefixToken(GetTokens(BotTokenType).AccessToken)
    /\ pc' = [t \in TokenType |-> "top"]
    /\ connPc' = "running"
    /\ mainPc' = "wait"
    /\ UNCHANGED <<now, storeVars, authVars, tok, acc, wake, failAt, ctxDone,
                   graceLeft, probeVars, envVars>>

\* setup after oauthFlow and main up to <-sigChan: the irc client is made with
\* the bot's access token, the two refresh loops and client.Connect are started.
MainStart ==
    /\ mainPc = "client"
    /\ ircToken' = prefixToken(GetTokens(BotTokenType).AccessToken)
    /\ pc' = [t \in TokenType |-> "top"]
    /\ connPc' = "running"
    /\ mainPc' = "wait"
    /\ UNCHANGED <<now, storeVars, authVars, tok, acc, wake, failAt, ctxDone,
                   graceLeft, probeVars, envVars>>

---------------------------------------------------------------------------
(* The refresh loops: tokenRefreshWatch(ctx, client, config, t) *)

Max(a, b) == IF a > b THEN a ELSE b

getRefreshTimeEarly(token, at) ==
    IF IsExpired(token, at) THEN at ELSE Add(token.ExpiresAt, -(Margin + 1))

getRefreshTimeTwiceTheMargin(token, at) ==
    IF IsExpired(token, at) THEN at ELSE Add(token.ExpiresAt, -(Margin + Margin))

\* getRefreshTime at clock reading `at`
getRefreshTime(token, at) ==
    IF IsExpired(token, at) THEN at ELSE Add(token.ExpiresAt, -Margin)

tokenDelayNoClamp(t) ==
    now + Until(Add(GetTokens(t).ExpiresAt, -Margin), now)

\* tokenDelay: the time at which the timer of delay(ctx, until) fires
tokenDelay(t) ==
    now + Until(getRefreshTime(GetTokens(t), now), now)

LoopTopIgnoringCancel(t) ==
    /\ Running
    /\ pc[t] = "top"
    /\ pc' = [pc EXCEPT ![t] = "delay"]
    /\ wake' = [wake EXCEPT ![t] = tokenDelay(t)]
    /\ UNCHANGED <<now, storeVars, mainPc, authVars, tok, acc, failAt, ctxDone,
                   ircToken, connPc, graceLeft, probeVars, envVars>>

\* Top of the loop: stop when ctx is done, otherwise tokenDelay up to the
\* select of delay()
LoopTop(t) ==
    /\ Running
    /\ pc[t] = "top"
    /\ IF ctxDone
       THEN pc' = [pc EXCEPT ![t] = "stopped"] /\ UNCHANGED wake
       ELSE pc' = [pc EXCEPT ![t] = "delay"] /\ wake' = [wake EXCEPT ![t] = tokenDelay(t)]
    /\ UNCHANGED <<now, storeVars, mainPc, authVars, tok, acc, failAt, ctxDone,
                   ircToken, connPc, graceLeft, probeVars, envVars>>

\* delay(): case <-ctx.Done(), in tokenDelay or in the back-off of tokenRefresh
DelayCancelled(t) ==
    /\ Running
    /\ pc[t] \in {"delay", "backoff"}
    /\ ctxDone
    /\ pc' = [pc EXCEPT ![t] = "stopped"]
    /\ wake' = [wake EXCEPT ![t] = 0]
    /\ failAt' = [failAt EXCEPT ![t] = NoFail]
    /\ UNCHANGED <<now, storeVars, mainPc, authVars, tok, acc, ctxDone,
                   ircToken, connPc, graceLeft, probeVars, envVars>>

DelayElapsedOverlapping(t) ==
    /\ Running
    /\ pc[t] \in {"delay", "push"}
    /\ now >= wake[t]
    /\ pc' = [pc EXCEPT ![t] = "inflight"]
    /\ tok' = [tok EXCEPT ![t] = GetTokens(t)]
    /\ wake' = [wake EXCEPT ![t] = 0]
    /\ UNCHANGED <<now, storeVars, mainPc, authVars, acc, failAt, ctxDone,
                   ircToken, connPc, graceLeft, probeVars, envVars>>

DelayElapsedOtherRecord(t) ==
    /\ Running
    /\ pc[t] = "delay"
    /\ now >= wake[t]
    /\ pc' = [pc EXCEPT ![t] = "inflight"]
    /\ tok' = [tok EXCEPT ![t] = GetTokens(CHOOSE o \in TokenType : o # t)]
    /\ wake' = [wake EXCEPT ![t] = 0]
    /\ UNCHANGED <<now, storeVars, mainPc, authVars, acc, failAt, ctxDone,
                   ircToken, connPc, graceLeft, probeVars, envVars>>

\* delay(): case <-time.After(d) in tokenDelay; tokenRefresh then reads the
\* record and calls refreshTokens with its refresh token
DelayElapsed(t) ==
    /\ Running
    /\ pc[t] = "delay"
    /\ now >= wake[t]
    /\ pc' = [pc EXCEPT ![t] = "inflight"]
    /\ tok' = [tok EXCEPT ![t] = GetTokens(t)]
    /\ wake' = [wake EXCEPT ![t] = 0]
    /\ UNCHANGED <<now, storeVars, mainPc, authVars, acc, failAt, ctxDone,
                   ircToken, connPc, graceLeft, probeVars, envVars>>

tokenRefreshFailedNoWait(t) ==
    /\ pc' = [pc EXCEPT ![t] = "backoff"]
    /\ wake' = [wake EXCEPT ![t] = now]
    /\ failAt' = [failAt EXCEPT ![t] = [set |-> TRUE, at |-> now]]
    /\ UNCHANGED <<storeVars, acc, ircToken>>

tokenRefreshFailedStoring(t) ==
    /\ pc' = [pc EXCEPT ![t] = "backoff"]
    /\ wake' = [wake EXCEPT ![t] = now + BackOff]
    /\ failAt' = [failAt EXCEPT ![t] = [set |-> TRUE, at |-> now]]
    /\ SetTokens(t, NewRecord(Empty, Empty, now, tok[t].UserID, tok[t].Username), TRUE)
    /\ ircToken' = prefixToken(Empty)
    /\ UNCHANGED acc

tokenRefreshFailedPostponing(t) ==
    /\ pc' = [pc EXCEPT ![t] = "backoff"]
    /\ wake' = [wake EXCEPT ![t] = now + BackOff]
    /\ failAt' = [failAt EXCEPT ![t] = [set |-> TRUE, at |-> now]]
    /\ tokens' = [tokens EXCEPT ![t].ExpiresAt = now + BackOff + Margin + 1]
    /\ UNCHANGED <<file, lastSet, writeErrs, acc, ircToken>>

\* tokenRefresh, err != nil: delay(ctx, 30*time.Second)
tokenRefreshFailed(t) ==
    /\ pc' = [pc EXCEPT ![t] = "backoff"]
    /\ wake' = [wake EXCEPT ![t] = now + BackOff]
    /\ failAt' = [failAt EXCEPT ![t] = [set |-> TRUE, at |-> now]]
    /\ UNCHANGED <<storeVars, acc, ircToken>>

tokenRefreshedNotStored(t, life, writeOk) ==
    LET g == TokenGet(Refreshed(tok[t].RefreshToken, life), now)
    IN  /\ acc' = [acc EXCEPT ![t] = g.token]
        /\ pc' = [pc EXCEPT ![t] = "push"]
        /\ failAt' = [failAt EXCEPT ![t] = NoFail]
        /\ UNCHANGED <<storeVars, wake, ircToken>>

tokenRefreshedDroppingSubject(t, life, writeOk) ==
    LET g == TokenGet(Refreshed(tok[t].RefreshToken, life), now)
    IN  /\ SetTokens(t, NewRecord(g.token, g.refresh, parseExpiresTime(g.expires),
                                  Empty, ""),
                     writeOk)
        /\ acc' = [acc EXCEPT ![t] = g.token]
        /\ pc' = [pc EXCEPT ![t] = "push"]
        /\ failAt' = [failAt EXCEPT ![t] = NoFail]
        /\ UNCHANGED <<wake, ircToken>>

\* tokenRefresh, err == nil: newTokens.get(), config.SetTokens
tokenRefreshed(t, life, writeOk) ==
    LET g == TokenGet(Refreshed(tok[t].RefreshToken, life), now)
    IN  /\ SetTokens(t, NewRecord(g.token, g.refresh, parseExpiresTime(g.expires),
                                  tok[t].UserID, tok[t].Username),
                     writeOk)
        /\ acc' = [acc EXCEPT ![t] = g.token]
        /\ pc' = [pc EXCEPT ![t] = "push"]
        /\ failAt' = [failAt EXCEPT ![t] = NoFail]
        /\ UNCHANGED <<wake, ircToken>>

\* refreshTokens returns an error
RefreshFail(t) ==
    /\ Running
    /\ pc[t] = "inflight"
    /\ tokenRefreshFailed(t)
    /\ UNCHANGED <<now, mainPc, authVars, tok, ctxDone, connPc, graceLeft, probeVars, envVars>>

RefreshOkOneAtATime(t) ==
    /\ Running
    /\ pc[t] = "inflight"
    /\ \A o \in TokenType \ {t} : pc[o] \notin {"inflight", "backoff"}
    /\ CanRefresh(tok[t].RefreshToken)
    /\ \E life \in Lifetimes, writeOk \in WriteOutcomes : tokenRefreshed(t, life, writeOk)
    /\ UNCHANGED <<now, mainPc, authVars, tok, ctxDone, connPc, graceLeft, probeVars, envVars>>

\* refreshTokens returns new credentials
RefreshOk(t) ==
    /\ Running
    /\ pc[t] = "inflight"
    /\ CanRefresh(tok[t].RefreshToken)
    /\ \E life \in Lifetimes, writeOk \in WriteOutcomes : tokenRefreshed(t, life, writeOk)
    /\ UNCHANGED <<now, mainPc, authVars, tok, ctxDone, connPc, graceLeft, probeVars, envVars>>

\* tokenRefresh: client.SetIRCToken(prefixToken(accessToken)), back to the loop
Push(t) ==
    /\ Running
    /\ pc[t] = "push"
    /\ ircToken' = prefixToken(acc[t])
    /\ acc' = [acc EXCEPT ![t] = Empty]
    /\ tok' = [tok EXCEPT ![t] = ZeroTokens]
    /\ pc' = [pc EXCEPT ![t] = "top"]
    /\ UNCHANGED <<now, storeVars, mainPc, authVars, wake, failAt, ctxDone,
                   connPc, graceLeft, probeVars, envVars>>

\* delay(): case <-time.After(30s) after a failed refresh; back to the loop
BackoffElapsed(t) ==
    /\ Running
    /\ pc[t] = "backoff"
    /\ now >= wake[t]
    /\ pc' = [pc EXCEPT ![t] = "top"]
    /\ tok' = [tok EXCEPT ![t] = ZeroTokens]
    /\ wake' = [wake EXCEPT ![t] = 0]
    /\ UNCHANGED <<now, storeVars, mainPc, authVars, acc, failAt, ctxDone,
                   ircToken, connPc, graceLeft, probeVars, envVars>>

---------------------------------------------------------------------------
(* The clock, the connection goroutine, the signal and shutdown *)

\* A loop that can take a step now: it is not waiting for a timer or a reply
Runnable(t) ==
    \/ pc[t] \in {"top", "push"}
    \/ pc[t] \in {"delay", "backoff"} /\ (now >= wake[t] \/ ctxDone)

\* A tick is long against the steps of a goroutine: the clock advances when
\* every loop waits for its timer, for the provider's reply, or has stopped.
Tick ==
    /\ Running
    /\ now < MaxTime
    /\ \A t \in TokenType : ~ Runnable(t)
    /\ now' = now + 1
    /\ graceLeft' = IF graceLeft > 0 THEN graceLeft - 1 ELSE 0
    /\ UNCHANGED <<storeVars, mainPc, authVars, loopVars, ctxDone, ircToken,
                   connPc, probeVars, envVars>>

ConnectReturnsSilently ==
    /\ Running
    /\ connPc = "running"
    /\ connPc' = "exited"
    /\ UNCHANGED <<now, storeVars, mainPc, authVars, loopVars, ctxDone, ircToken,
                   graceLeft, probeVars, envVars>>

\* go func() { if err := client.Connect(); err != nil { cancel() } }():
\* Connect returns an error when it cannot connect and after Disconnect
ConnectReturns ==
    /\ Running
    /\ connPc = "running"
    /\ connPc' = "exited"
    /\ ctxDone' = TRUE
    /\ UNCHANGED <<now, storeVars, mainPc, authVars, loopVars, ircToken, graceLeft,
                   probeVars, envVars>>

\* main: <-sigChan, cancel(), shutdown() up to its select (the signal comes
\* while the clock has room for the grace period)
Signal ==
    /\ mainPc = "wait"
    /\ now + Grace <= MaxTime
    /\ ctxDone' = TRUE
    /\ mainPc' = "shutdown"
    /\ graceLeft' = Grace
    /\ UNCHANGED <<now, storeVars, authVars, loopVars, ircToken, connPc, probeVars, envVars>>

\* wg.Wait() has returned: both loops and the connection goroutine are done
WaitGroupDone ==
    /\ \A t \in TokenType : pc[t] = "stopped"
    /\ connPc = "exited"

ShutdownWaitsForAll ==
    /\ mainPc = "shutdown"
    /\ WaitGroupDone
    /\ mainPc' = "exited"
    /\ pc' = [t \in TokenType |-> IF pc[t] = "stopped" THEN "stopped" ELSE "killed"]
    /\ tok' = [t \in TokenType |-> ZeroTokens]
    /\ acc' = [t \in TokenType |-> Empty]
    /\ wake' = [t \in TokenType |-> 0]
    /\ failAt' = [t \in TokenType |-> NoFail]
    /\ tokens' = ZeroStore
    /\ lastSet' = [t \in TokenType |-> Unset]
    /\ ircToken' = Empty
    /\ connPc' = IF connPc = "exited" THEN "exited" ELSE "killed"
    /\ graceLeft' = 0
    /\ UNCHANGED <<now, file, writeErrs, authVars, ctxDone, probeVars, envVars>>

\* shutdown: case <-done, or case <-time.After(10s); main returns and the
\* process ends, taking its memory and the goroutines still running with it
Shutdown ==
    /\ mainPc = "shutdown"
    /\ WaitGroupDone \/ graceLeft = 0
    /\ mainPc' = "exited"
    /\ pc' = [t \in TokenType |-> IF pc[t] = "stopped" THEN "stopped" ELSE "killed"]
    /\ tok' = [t \in TokenType |-> ZeroTokens]
    /\ acc' = [t \in TokenType |-> Empty]
    /\ wake' = [t \in TokenType |-> 0]
    /\ failAt' = [t \in TokenType |-> NoFail]
    /\ tokens' = ZeroStore
    /\ lastSet' = [t \in TokenType |-> Unset]
    /\ ircToken' = Empty
    /\ connPc' = IF connPc = "exited" THEN "exited" ELSE "killed"
    /\ graceLeft' = 0
    /\ UNCHANGED <<now, file, writeErrs, authVars, ctxDone, probeVars, envVars>>

\* The process from its start until main has started its goroutines
NextStartup ==
    \/ LoadConfig
    \/ FlowCheck
    \/ \E t \in TokenType : CallbackHit(t)
    \/ HandleCallback
    \/ \E t \in TokenType : SleeperSend(t)
    \/ SessionEnd
    \/ FlowExchange
    \/ MainStart

SpecStartup == Init /\ [][NextStartup]_vars

\* The records main can start its goroutines with: loaded from the file and
\* valid, or authorized a moment ago (possibly with a lifetime inside the margin)
StartRecords(t) ==
    {Credential(ExpectedUser(t), 0, e) : e \in {Margin - 1, Margin + 1}}
StartStores ==
    {[t \in TokenType |-> IF t = BotTokenType THEN b ELSE c] :
        b \in StartRecords(BotTokenType), c \in StartRecords(BroadcasterTokenType)}

\* main at <-sigChan: setup has returned, the loops and client.Connect run
InitRun ==
    /\ now = 0
    /\ tokens \in StartStores
    /\ file = StoreFile(tokens)
    /\ mainPc = "wait"
    /\ flowId = "none"
    /\ srv = [t \in TokenType |-> NoServer]
    /\ req = NoReq
    /\ hits = [t \in TokenType |-> 0]
    /\ sleepers = [t \in TokenType |-> 0]
    /\ code = Empty
    /\ last = NoResponse
    /\ pc = [t \in TokenType |-> "top"]
    /\ tok = [t \in TokenType |-> ZeroTokens]
    /\ acc = [t \in TokenType |-> Empty]
    /\ wake = [t \in TokenType |-> 0]
    /\ ctxDone = FALSE
    /\ ircToken = prefixToken(tokens[BotTokenType].AccessToken)
    /\ connPc = "running"
    /\ graceLeft = 0
    /\ writeErrs = 0
    /\ failAt = [t \in TokenType |-> NoFail]
    /\ lastSet = [t \in TokenType |-> Unset]
    /\ probe = NoProbe
    /\ verdict = "unset"
    /\ clientSecret = TRUE
    /\ mu = "free"
    /\ wr = [t \in TokenType |-> NoSet]
    /\ exchanged = {}

Next ==
    \/ \E t \in TokenType : LoopTop(t)
    \/ \E t \in TokenType : DelayCancelled(t)
    \/ \E t \in TokenType : DelayElapsed(t)
    \/ \E t \in TokenType : RefreshFail(t)
    \/ \E t \in TokenType : RefreshOk(t)
    \/ \E t \in TokenType : Push(t)
    \/ \E t \in TokenType : BackoffElapsed(t)
    \/ Tick
    \/ ConnectReturns
    \/ Signal
    \/ Shutdown

Spec == InitRun /\ [][Next]_vars

---------------------------------------------------------------------------
(* The validity check on its own: isValid applied to a record at a time *)

ProbeRecords ==
    {[ZeroTokens EXCEPT !.AccessToken = a, !.RefreshToken = r, !.ExpiresAt = e] :
        a \in {Empty, AccessOf("botuser", 0)},
        r \in {Empty, RefreshOf("botuser", 0)},
        e \in 0 .. MaxProbe + Margin}

InitValid ==
    /\ InitCommon
    /\ file = MissingFile
    /\ clientSecret = TRUE
    /\ probe \in [rec : ProbeRecords, at : 0 .. MaxProbe]
    /\ verdict = "unset"

ApplyIsValid ==
    /\ verdict = "unset"
    /\ verdict' = IF isValid(probe.rec, probe.at) THEN "valid" ELSE "invalid"
    /\ UNCHANGED <<now, storeVars, mainPc, authVars, loopVars, ctxDone, ircToken,
                   connPc, graceLeft, probe, envVars>>

NextValid == ApplyIsValid

SpecValid == InitValid /\ [][NextValid]_vars

---------------------------------------------------------------------------
(* The store on its own, statement by statement: callers of SetTokens and    *)
(* GetTokens on both identities, interleaved under cm.mu                      *)

\* The record a caller passes to its n-th SetTokens for identity t
SetRecords(t, n) ==
    {Credential(ExpectedUser(t), n, Margin + n + life) : life \in Lifetimes}

\* Every record of identity t that is loaded at start or passed to SetTokens
WholeRecords(t) ==
    {ZeroTokens} \cup StartRecords(t)
        \cup UNION {SetRecords(t, n) : n \in 1 .. MaxSets}

\* The store as setup leaves it, no SetTokens under way
InitStore == InitRun

\* SetTokens: cm.mu.Lock() (no reader holds the lock between two steps here)
SetLock(t) ==
    /\ wr[t].pc = "idle"
    /\ mu = "free"
    /\ wr[t].n < MaxSets
    /\ mu' = t
    /\ \E r \in SetRecords(t, wr[t].n + 1) :
          wr' = [wr EXCEPT ![t] = [pc |-> "locked", rec |-> r, ok |-> FALSE, n |-> @.n + 1]]
    /\ UNCHANGED <<now, storeVars, mainPc, authVars, loopVars, ctxDone, ircToken,
                   connPc, graceLeft, probeVars, exchanged, clientSecret>>

SetAssignTokensBoth(t) ==
    /\ wr[t].pc = "locked"
    /\ tokens' = [o \in TokenType |->
                     [tokens[o] EXCEPT !.AccessToken = wr[t].rec.AccessToken,
                                       !.RefreshToken = wr[t].rec.RefreshToken]]
    /\ wr' = [wr EXCEPT ![t].pc = "half"]
    /\ UNCHANGED <<now, file, lastSet, writeErrs, mainPc, authVars, loopVars, ctxDone,
                   ircToken, connPc, graceLeft, probeVars, exchanged, clientSecret, mu>>

\* SetTokens: tokens.AccessToken = accessToken; tokens.RefreshToken = refreshToken
SetAssignTokens(t) ==
    /\ wr[t].pc = "locked"
    /\ tokens' = [tokens EXCEPT ![t].AccessToken = wr[t].rec.AccessToken,
                                ![t].RefreshToken = wr[t].rec.RefreshToken]
    /\ wr' = [wr EXCEPT ![t].pc = "half"]
    /\ UNCHANGED <<now, file, lastSet, writeErrs, mainPc, authVars, loopVars, ctxDone,
                   ircToken, connPc, graceLeft, probeVars, exchanged, clientSecret, mu>>

SetAssignRestThroughAlias(t) ==
    /\ wr[t].pc = "half"
    /\ tokens' = [tokens EXCEPT ![t].ExpiresAt = wr[t].rec.ExpiresAt,
                                ![t].UserID = wr[t].rec.UserID,
                                ![t].Username = wr[t].rec.Username]
    /\ tok' = [tok EXCEPT ![t] = tokens'[t]]
    /\ wr' = [wr EXCEPT ![t].pc = "assigned"]
    /\ UNCHANGED <<now, file, lastSet, writeErrs, mainPc, authVars, pc, acc, wake,
                   failAt, ctxDone, ircToken, connPc, graceLeft, probeVars,
                   exchanged, clientSecret, mu>>

\* SetTokens: tokens.ExpiresAt = expiresAt; tokens.UserID = userID;
\* tokens.Username = username
SetAssignRest(t) ==
    /\ wr[t].pc = "half"
    /\ tokens' = [tokens EXCEPT ![t].ExpiresAt = wr[t].rec.ExpiresAt,
                                ![t].UserID = wr[t].rec.UserID,
                                ![t].Username = wr[t].rec.Username]
    /\ wr' = [wr EXCEPT ![t].pc = "assigned"]
    /\ UNCHANGED <<now, file, lastSet, writeErrs, mainPc, authVars, loopVars, ctxDone,
                   ircToken, connPc, graceLeft, probeVars, exchanged, clientSecret, mu>>

saveToFileOwnRecord(ts, t) ==
    StoreFile([LoadFromFile(file) EXCEPT ![t] = ts[t]])

\* TokenStore.saveToFile, called on cm.tokens for the sake of identity t:
\* json.MarshalIndent of the whole store, written over tokens.json
saveToFile(ts, t) == StoreFile(ts)

\* SetTokens: cm.tokens.saveToFile("tokens.json"); an error is only logged
SetSave(t) ==
    /\ wr[t].pc = "assigned"
    /\ \E writeOk \in WriteOutcomes :
          /\ file' = IF writeOk THEN saveToFile(tokens, t) ELSE file
          /\ writeErrs' = IF writeOk THEN writeErrs ELSE writeErrs + 1
          /\ wr' = [wr EXCEPT ![t].pc = "saved", ![t].ok = writeOk]
    /\ UNCHANGED <<now, tokens, lastSet, mainPc, authVars, loopVars, ctxDone,
                   ircToken, connPc, graceLeft, probeVars, exchanged, clientSecret, mu>>

SetReturnsHoldingLock(t) ==
    /\ wr[t].pc = "saved"
    /\ lastSet' = [lastSet EXCEPT ![t] = [set |-> TRUE, rec |-> wr[t].rec]]
    /\ wr' = [wr EXCEPT ![t].pc = "idle"]
    /\ UNCHANGED <<now, tokens, file, writeErrs, mainPc, authVars, loopVars, ctxDone,
                   ircToken, connPc, graceLeft, probeVars, exchanged, clientSecret, mu>>

\* SetTokens returns: the deferred cm.mu.Unlock()
SetUnlock(t) ==
    /\ wr[t].pc = "saved"
    /\ mu' = "free"
    /\ lastSet' = [lastSet EXCEPT ![t] = [set |-> TRUE, rec |-> wr[t].rec]]
    /\ wr' = [wr EXCEPT ![t].pc = "idle"]
    /\ UNCHANGED <<now, tokens, file, writeErrs, mainPc, authVars, loopVars, ctxDone,
                   ircToken, connPc, graceLeft, probeVars, exchanged, clientSecret>>

ReadTokensUnlocked(t) ==
    /\ tok' = [tok EXCEPT ![t] = GetTokens(t)]
    /\ UNCHANGED <<now, storeVars, mainPc, authVars, pc, acc, wake, failAt, ctxDone,
                   ircToken, connPc, graceLeft, probeVars, envVars>>

\* A caller's token := GetTokens(t): cm.mu.RLock(), which no caller gets while
\* SetTokens holds the lock, the copy of the record, RUnlock
ReadTokens(t) ==
    /\ mu = "free"
    /\ tok' = [tok EXCEPT ![t] = GetTokens(t)]
    /\ UNCHANGED <<now, storeVars, mainPc, authVars, pc, acc, wake, failAt, ctxDone,
                   ircToken, connPc, graceLeft, probeVars, envVars>>

NextStore ==
    \/ \E t \in TokenType : SetLock(t)
    \/ \E t \in TokenType : SetAssignTokens(t)
    \/ \E t \in TokenType : SetAssignRest(t)
    \/ \E t \in TokenType : SetSave(t)
    \/ \E t \in TokenType : SetUnlock(t)
    \/ \E t \in TokenType : ReadTokens(t)

SpecStore == InitStore /\ [][NextStore]_vars

---------------------------------------------------------------------------
(* One authorization session on its own: the bot's session, opened with no   *)
(* tokens.json, and the callbacks a browser can send to it                    *)

\* setup has loaded no record and oauthFlow has started the bot's session
InitSession ==
    /\ now = 0
    /\ tokens = ZeroStore
    /\ file = MissingFile
    /\ mainPc = "session"
    /\ flowId = BotTokenType
    /\ srv = [t \in TokenType |->
                 IF t = BotTokenType
                 THEN [listening |-> TRUE, code |-> Empty, done |-> 0]
                 ELSE NoServer]
    /\ req = NoReq
    /\ hits = [t \in TokenType |-> 0]
    /\ sleepers = [t \in TokenType |-> 0]
    /\ code = Empty
    /\ last = NoResponse
    /\ pc = [t \in TokenType |-> "idle"]
    /\ tok = [t \in TokenType |-> ZeroTokens]
    /\ acc = [t \in TokenType |-> Empty]
    /\ wake = [t \in TokenType |-> 0]
    /\ ctxDone = FALSE
    /\ ircToken = Empty
    /\ connPc = "off"
    /\ failAt = [t \in TokenType |-> NoFail]
    /\ lastSet = [t \in TokenType |-> Unset]
    /\ graceLeft = 0
    /\ writeErrs = 0
    /\ probe = NoProbe
    /\ verdict = "unset"
    /\ clientSecret = TRUE
    /\ mu = "free"
    /\ wr = [t \in TokenType |-> NoSet]
    /\ exchanged = {}

\* A browser request reaches GET /callback of the session's server
SessionHit(t) ==
    /\ Alive
    /\ srv[t].listening
    /\ ~ req.active
    /\ hits[t] < MaxSessionHits
    /\ \E e \in BOOLEAN, c \in Codes \cup {Empty}, x \in BOOLEAN :
          req' = [active |-> TRUE, to |-> t, error |-> e, code |-> c, exch |-> x]
    /\ hits' = [hits EXCEPT ![t] = @ + 1]
    /\ UNCHANGED <<now, storeVars, mainPc, flowId, srv, sleepers, code, last,
                   loopVars, ctxDone, ircToken, connPc, graceLeft, probeVars, envVars>>

NextSession ==
    \/ SessionHit(BotTokenType)
    \/ HandleCallback
    \/ SleeperSend(BotTokenType)
    \/ SessionEnd
    \/ FlowExchange

SpecSession == InitSession /\ [][NextSession]_vars

---------------------------------------------------------------------------
(* Properties *)

NonEmptyTokens(u) == u.AccessToken # Empty /\ u.RefreshToken # Empty

\* C1 (as the code has it): isValid is true iff both tokens are non-empty and
\* now <= expiresAt - Margin; a record with exactly the margin remaining is
\* still valid, and one with an empty token is invalid whatever its expiry.
ValidIffTokensAndMarginInclusive ==
    verdict # "unset" =>
        (verdict = "valid" <=>
            NonEmptyTokens(probe.rec) /\ probe.at <= probe.rec.ExpiresAt - Margin)

\* C1 (as stated): isValid is true iff both tokens are non-empty and
\* now < expiresAt - Margin, so exactly the margin remaining is invalid.
ValidIffTokensAndMarginStrict ==
    verdict # "unset" =>
        (verdict = "valid" <=>
            NonEmptyTokens(probe.rec) /\ probe.at < probe.rec.ExpiresAt - Margin)

\* C1 witness: a record with exactly the margin remaining was judged valid
ValidAtExactMargin ==
    /\ verdict = "valid"
    /\ probe.at = probe.rec.ExpiresAt - Margin

\* C2: after SetTokens(t, r) GetTokens(t) returns exactly r until the next
\* SetTokens for t, whether or not the write of tokens.json succeeded; the
\* caller is not told of a failed write and goes on with the new record.
ReadYourWrites ==
    \A t \in TokenType :
        lastSet[t].set =>
            /\ GetTokens(t) = lastSet[t].rec
            /\ pc[t] = "push" => acc[t] = GetTokens(t).AccessToken

\* C2 witness: a set whose write failed has returned, the file is behind
SetReturnedAfterFailedWrite ==
    \E t \in TokenType :
        /\ lastSet[t].set
        /\ pc[t] = "push"
        /\ writeErrs > 0
        /\ file # StoreFile(tokens)

\* C3: a loop that has issued a refresh call did so no earlier than
\* expiresAt - Margin of the record stored for its identity at the call,
\* whatever refreshes of either identity succeeded or failed before.
NoRefreshBeforeMargin ==
    \A t \in TokenType :
        pc[t] = "inflight" =>
            /\ tok[t] = GetTokens(t)
            /\ now >= GetTokens(t).ExpiresAt - Margin

\* C3 witness: a renewed record was slept on and its refresh call is issued
\* exactly at expiresAt - Margin, while the other identity had a failure
CallIssuedAtMargin ==
    \E t, o \in TokenType :
        /\ t # o
        /\ pc[t] = "inflight"
        /\ lastSet[t].set
        /\ now = GetTokens(t).ExpiresAt - Margin
        /\ failAt[o].set

\* C4 (as stated): once the context is cancelled a loop in tokenDelay's sleep
\* stops without a refresh call, also when its timer is ready at that moment.
CancelledSleepMakesNoCall ==
    [][\A t \in TokenType :
          (pc[t] = "delay" /\ ctxDone) => pc'[t] \in {"delay", "stopped", "killed"}]_vars

\* C5: a failed refresh leaves the stored records, tokens.json and the token
\* of the irc client as they were; the irc client's token changes only when
\* a successful refresh pushes the access token it has just stored.
FailedRefreshChangesNothing ==
    [][/\ \A t \in TokenType :
             (pc[t] = "inflight" /\ pc'[t] = "backoff") =>
                 tokens' = tokens /\ file' = file /\ ircToken' = ircToken
       /\ (ircToken' # ircToken /\ mainPc' # "exited") =>
             \E t \in TokenType :
                 /\ pc[t] = "push"
                 /\ lastSet[t].set
                 /\ ircToken' = prefixToken(GetTokens(t).AccessToken)]_vars

\* C5 witness: a refresh has failed after an earlier one succeeded and was pushed
FailedAfterPushed ==
    \E t \in TokenType :
        /\ pc[t] = "backoff"
        /\ lastSet[t].set
        /\ ircToken = prefixToken(GetTokens(t).AccessToken)
        /\ file = StoreFile(tokens)

\* C6: a refresh call that follows a failed one for the same identity is
\* issued no sooner than BackOff after the failure.
NoCallInsideBackOff ==
    \A t \in TokenType :
        /\ (pc[t] = "inflight" /\ failAt[t].set) => now >= failAt[t].at + BackOff
        /\ pc[t] = "backoff" => failAt[t].set /\ wake[t] = failAt[t].at + BackOff

\* C6 witness: the call after a failure is issued exactly when the back-off ends
RetryIssuedAfterBackOff ==
    \E t \in TokenType :
        /\ pc[t] = "inflight"
        /\ failAt[t].set
        /\ now = failAt[t].at + BackOff

\* The record's refresh time has come: expiresAt - Margin is not in the future
InWindow(t) == GetTokens(t).ExpiresAt - Margin <= now

\* C7: the timer of an iteration is set for max(now, expiresAt - Margin) of
\* the current record; with the record inside the window there is no sleep,
\* and the loop's next step is the refresh call (or its stop on cancellation).
WakeAtMaxNowMargin ==
    [][\A t \in TokenType :
          /\ (pc[t] = "top" /\ pc'[t] = "delay") =>
                /\ wake'[t] = Max(now, GetTokens(t).ExpiresAt - Margin)
                /\ InWindow(t) => wake'[t] = now
          /\ (pc[t] = "delay" /\ pc'[t] # "delay") =>
                pc'[t] \in {"inflight", "stopped", "killed"}]_vars

\* C7 witness: a record renewed with a lifetime inside the margin, at a time
\* after the start, is at the head of an iteration whose timer is already due
NoSleepInsideWindow ==
    \E t \in TokenType :
        /\ pc[t] = "delay"
        /\ lastSet[t].set
        /\ now > 0
        /\ GetTokens(t).ExpiresAt - Margin < now
        /\ wake[t] = now

\* The request being handled carries a code of another account than the one
\* expected for the session, and the provider will exchange it
WrongAccountRequest ==
    /\ req.active
    /\ ~ req.error
    /\ req.code # Empty
    /\ req.exch
    /\ Holder(req.code) # ExpectedUser(req.to)

\* C8 (as stated): handling a callback whose code belongs to the wrong
\* account signals no success and leaves both records and tokens.json alone.
WrongAccountLeavesStoreUnchanged ==
    [][(WrongAccountRequest /\ ~ req'.active) =>
          /\ tokens' = tokens
          /\ file' = file
          /\ sleepers' = sleepers]_vars

\* C9: the broadcaster's session server listens only after the bot's session
\* has ended, the bot's only before the broadcaster's has begun, so at most
\* one session server is listening at any moment.
SessionsSequential ==
    /\ ~ (srv[BotTokenType].listening /\ srv[BroadcasterTokenType].listening)
    /\ srv[BotTokenType].listening =>
          /\ flowId = BotTokenType
          /\ hits[BroadcasterTokenType] = 0
          /\ ~ lastSet[BroadcasterTokenType].set
    /\ srv[BroadcasterTokenType].listening =>
          /\ flowId = BroadcasterTokenType
          /\ mainPc = "session"

\* C9 witness: both identities needed authorization; the bot's session is
\* over and its record stored, the broadcaster's server is listening
SecondSessionAfterFirst ==
    /\ srv[BroadcasterTokenType].listening
    /\ ~ srv[BotTokenType].listening
    /\ hits[BotTokenType] > 0
    /\ lastSet[BotTokenType].set

\* A step in which the authorization of the current identity fails: the
\* session ends without a code to exchange, or the exchange stores nothing
AuthFails ==
    /\ mainPc \in {"session", "exchange"}
    /\ mainPc' # mainPc
    /\ lastSet' = lastSet
    /\ mainPc = "session" => mainPc' # "exchange"

\* C10: a failed authorization of either identity ends start-up for good:
\* no session is started again, and neither refresh loop nor the connection
\* goroutine is ever started.
StartupAbortsOnAuthFailure ==
    [][/\ AuthFails => mainPc' = "fatal"
       /\ mainPc' = "fatal" =>
             /\ \A t \in TokenType : pc'[t] = "idle"
             /\ connPc' = "off"
       /\ mainPc = "fatal" =>
             /\ mainPc' = "fatal"
             /\ flowId' = flowId
             /\ \A t \in TokenType : srv'[t].listening => srv[t].listening]_vars

\* C10 witness: the bot was authorized, the broadcaster's authorization
\* failed, and the process has ended before anything was started
AbortedOnSecondIdentity ==
    /\ mainPc = "fatal"
    /\ flowId = BroadcasterTokenType
    /\ lastSet[BotTokenType].set
    /\ \A t \in TokenType : pc[t] = "idle"
    /\ connPc = "off"

\* C11: an identity whose record is valid gets no authorization session and
\* its record is left as it is; a session server starts listening only for
\* an identity whose record is not valid.
SessionOnlyForInvalid ==
    [][\A t \in TokenType :
          /\ (mainPc # "load" /\ isValid(tokens[t], now)) =>
                /\ tokens'[t] = tokens[t]
                /\ hits'[t] = hits[t]
                /\ srv'[t].listening = srv[t].listening
          /\ (srv'[t].listening /\ ~ srv[t].listening) =>
                ~ isValid(tokens[t], now)]_vars

\* C11 witness: the bot's record was loaded valid and passed over without a
\* session, the broadcaster's was not and its session server is listening
ValidIdentitySkipped ==
    /\ isValid(tokens[BotTokenType], now)
    /\ hits[BotTokenType] = 0
    /\ ~ lastSet[BotTokenType].set
    /\ tokens[BotTokenType] = LoadFromFile(file)[BotTokenType]
    /\ srv[BroadcasterTokenType].listening

\* C12 (as stated): once a session's callback has been handled, whatever its
\* outcome, the release of the caller blocked in server.Start is on its way
\* (a send on s.done is pending or made), so the server shuts down.
CallbackOutcomeReleasesCaller ==
    \A t \in TokenType :
        (Alive /\ srv[t].listening /\ hits[t] > 0 /\ ~ req.active) =>
            (sleepers[t] > 0 \/ srv[t].done > 0)

\* The session of server t has its outcome: a callback succeeded and the
\* send on s.done is pending or made
Completed(t) == sleepers[t] > 0 \/ srv[t].done > 0

\* C13 (as stated): a callback handled after the session has its outcome
\* exchanges no code, leaves the captured code as it is, writes nothing and
\* signals nothing more.
SecondCallbackIsNoOp ==
    [][(req.active /\ ~ req'.active /\ Completed(req.to)) =>
          /\ ~ last'.exch
          /\ srv'[req.to].code = srv[req.to].code
          /\ file' = file
          /\ sleepers' = sleepers]_vars

\* C14 (as stated): a session that no callback has reached can be ended by
\* the program itself (a flow timeout), so the wait in server.Start is bounded.
SessionWaitBounded ==
    (mainPc = "session" /\ hits[flowId] = 0) => ENABLED SessionEnd

\* C15: a callback with the `error` parameter is answered with the failure
\* carrying the provider's error text; no code is exchanged or captured and
\* nothing is stored, also when the request carries a code as well.
ErrorCallbackExchangesNothing ==
    [][(req.active /\ ~ req'.active /\ req.error) =>
          /\ last'.resp = "error"
          /\ ~ last'.exch
          /\ srv' = srv
          /\ sleepers' = sleepers
          /\ tokens' = tokens
          /\ file' = file]_vars

\* C15 witness: a callback carrying both `error` and a code has been answered
\* with the provider's error, and the server has captured no code
ErrorWithCodeRefused ==
    \E t \in TokenType :
        /\ srv[t].listening
        /\ hits[t] > 0
        /\ last = [resp |-> "error", exch |-> FALSE, hadCode |-> TRUE]
        /\ srv[t].code = Empty

\* C16: a callback with neither `error` nor a code is answered "no
\* authorization code received" without an exchange or a write, and a session
\* that ends with no code captured is an error to its caller.
NoCodeCallbackExchangesNothing ==
    [][/\ (req.active /\ ~ req'.active /\ ~ req.error /\ req.code = Empty) =>
             /\ last'.resp = "nocode"
             /\ ~ last'.exch
             /\ srv'[req.to].code = Empty
             /\ sleepers' = sleepers
             /\ tokens' = tokens
             /\ file' = file
       /\ (mainPc = "session" /\ mainPc' # "session" /\ srv[flowId].code = Empty) =>
             mainPc' = "fatal" /\ tokens' = tokens]_vars

\* C16 witness: a callback without `error` and without a code was answered
\* "no authorization code received" and the caller got that error
NoCodeReported ==
    /\ last = [resp |-> "nocode", exch |-> FALSE, hadCode |-> FALSE]
    /\ mainPc = "fatal"
    /\ srv[flowId].code = Empty
    /\ ~ lastSet[flowId].set

\* C17: whatever the other loop is doing (its call in flight for however
\* long, or failing and backing off), a loop can take the step its own state
\* calls for: wake when its timer is due, get the provider's answer, store
\* and push the new token, start its next iteration.
LoopsIndependent ==
    \A t \in TokenType :
        Running =>
            /\ pc[t] = "top" => ENABLED LoopTop(t)
            /\ (pc[t] = "delay" /\ now >= wake[t]) => ENABLED DelayElapsed(t)
            /\ pc[t] = "inflight" => ENABLED RefreshFail(t)
            /\ (pc[t] = "inflight" /\ CanRefresh(tok[t].RefreshToken)) => ENABLED RefreshOk(t)
            /\ pc[t] = "push" => ENABLED Push(t)
            /\ (pc[t] = "backoff" /\ now >= wake[t]) => ENABLED BackoffElapsed(t)

\* C17 witness: one loop's first call is in flight since the start, and the
\* other has meanwhile slept to its own refresh time, renewed and pushed
RenewedWhileOtherInFlight ==
    \E t, o \in TokenType :
        /\ t # o
        /\ pc[o] = "inflight"
        /\ tok[o].ExpiresAt = Margin - 1
        /\ ~ lastSet[o].set
        /\ ~ failAt[o].set
        /\ now > 0
        /\ pc[t] = "top"
        /\ lastSet[t].set
        /\ ircToken = prefixToken(GetTokens(t).AccessToken)

\* C18: an identity has at most one refresh call in flight, and while it is
\* in flight nothing of an earlier call is left to resolve: no new token
\* waits to be pushed and no back-off timer runs; between calls the loop
\* holds no call at all.
RefreshesSequential ==
    \A t \in TokenType :
        /\ pc[t] = "inflight" =>
              acc[t] = Empty /\ wake[t] = 0 /\ tok[t] = GetTokens(t)
        /\ pc[t] = "push" =>
              lastSet[t].set /\ acc[t] = GetTokens(t).AccessToken
        /\ pc[t] = "backoff" =>
              failAt[t].set /\ acc[t] = Empty /\ tok[t] = GetTokens(t)
        /\ pc[t] \in {"top", "delay"} =>
              acc[t] = Empty /\ tok[t] = ZeroTokens

\* C18 witness: a third call is in flight, after one that succeeded and was
\* stored and pushed and one that failed and was backed off
ThirdCallAfterBothOutcomes ==
    \E t \in TokenType :
        /\ pc[t] = "inflight"
        /\ Generation(tok[t].RefreshToken) = 1
        /\ failAt[t].set
        /\ acc[t] = Empty

\* C19 (as stated): once the context is cancelled a loop starts no refresh
\* call and arms no timer any more: from its sleep or its back-off it goes to
\* stopped, and a call in flight is its last.
CancelledLoopStartsNoRefresh ==
    [][\A t \in TokenType :
          ctxDone =>
              /\ pc'[t] = "inflight" => pc[t] = "inflight"
              /\ pc'[t] = "delay" => pc[t] = "delay"
              /\ pc'[t] = "backoff" => pc[t] \in {"backoff", "inflight"}]_vars

\* C20: in shutdown main can return as soon as both loops and the connection
\* goroutine are done, and in any case once the grace period is over; until
\* then the grace timer runs down whenever no loop has a step to take, also
\* with a loop waiting on a refresh call that never returns.
ShutdownTerminates ==
    mainPc = "shutdown" =>
        /\ ctxDone
        /\ graceLeft <= Grace
        /\ WaitGroupDone => ENABLED Shutdown
        /\ graceLeft = 0 => ENABLED Shutdown
        /\ (graceLeft > 0 /\ \A t \in TokenType : ~ Runnable(t)) => ENABLED Tick

\* C20 witness: main has returned when the grace period was over although a
\* loop had not stopped (its refresh call was in flight through the period)
ForcedExitWithLoopInCall ==
    /\ mainPc = "exited"
    /\ connPc = "exited"
    /\ \E t \in TokenType : pc[t] = "killed"

\* C21 (as stated): inside SetTokens the write of tokens.json comes before the
\* record is put in memory: as long as the write of the call under way has
\* not been attempted, memory does not hold the record the call was given.
FlushPrecedesSwap ==
    \A t \in TokenType :
        wr[t].pc \in {"locked", "half", "assigned"} => tokens[t] # wr[t].rec

\* C22: when SetTokens has written tokens.json without error, the file holds
\* the records of both identities exactly as they are in memory, also the
\* record of the other identity whose own write had failed.
SetPersistsWholeStore ==
    \A t \in TokenType :
        (wr[t].pc = "saved" /\ wr[t].ok) =>
            /\ file.kind = "store"
            /\ \A o \in TokenType : LoadFromFile(file)[o] = tokens[o]

\* C22 witness: the write of t's first SetTokens succeeded after the write of
\* the other identity's only SetTokens had failed, and the file holds the
\* other identity's record
OtherRecordPersistedAfterItsFailedWrite ==
    \E t, o \in TokenType :
        /\ t # o
        /\ wr[t].pc = "saved" /\ wr[t].ok /\ wr[t].n = 1
        /\ wr[o].n = 1 /\ lastSet[o].set
        /\ writeErrs > 0
        /\ LoadFromFile(file)[o] = lastSet[o].rec

\* C23: the record a caller got from GetTokens, and the record any holder of
\* the read lock looks at (isValid), is one that was loaded at start or passed
\* whole to a SetTokens, never a mix of two.
NoTornRecordObserved ==
    \A t \in TokenType :
        /\ tok[t] \in WholeRecords(t)
        /\ mu = "free" => tokens[t] \in WholeRecords(t)

\* C23 witness: a caller holds a whole record it read while a SetTokens for
\* the same identity has assigned only part of the fields
ReaderHoldsWholeRecordDuringSet ==
    \E t \in TokenType :
        /\ wr[t].pc = "half"
        /\ tokens[t] \notin WholeRecords(t)
        /\ tok[t] \in WholeRecords(t) \ {ZeroTokens}

\* C24: a step that changes the store changes no record a caller got from
\* GetTokens before.
SnapshotUnchangedBySet ==
    [][tokens' # tokens => tok' = tok]_vars

\* C24 witness: a SetTokens has returned and the caller still holds the record
\* it read before, which differs from the stored one
SnapshotOlderThanStore ==
    \E t \in TokenType :
        /\ mu = "free"
        /\ lastSet[t].set /\ tokens[t] = lastSet[t].rec
        /\ tok[t] \in StartRecords(t)
        /\ tok[t] # tokens[t]

\* tokens.json cannot be read as a token store: it is missing, is not JSON, or
\* has a value of the wrong type
Unloadable(f) == f.kind \in {"missing", "malformed", "mistyped"}

StoreThenPushOnce ==
    [][\A t \in TokenType :
          /\ (pc[t] = "inflight" /\ pc'[t] = "push") =>
                /\ tokens'[t] = lastSet'[t].rec
                /\ tokens'[t].AccessToken = acc'[t]
                /\ tokens'[t] # tokens[t]
                /\ ircToken' = ircToken
                /\ wake' = wake
          /\ pc'[t] = "push" => pc[t] \in {"inflight", "push"}
          /\ (pc[t] = "push" /\ pc'[t] = "push") => tokens'[t] = tokens[t]
          /\ (pc[t] = "push" /\ pc'[t] # "push" /\ mainPc' # "exited") =>
                /\ pc'[t] = "top"
                /\ ircToken' = prefixToken(tokens[t].AccessToken)
                /\ tokens' = tokens
                /\ wake' = wake
          /\ (pc'[t] = "delay" /\ pc[t] # "delay") => pc[t] = "top"
          /\ (ircToken' # ircToken /\ mainPc' # "exited") =>
                \E o \in TokenType : pc[o] = "push" /\ pc'[o] = "top"]_vars

\* C26 witness: a loop has stored a renewed record, pushed its access token
\* and armed its next timer
PushedTokenIsStored ==
    \E t \in TokenType :
        /\ pc[t] = "delay"
        /\ lastSet[t].set /\ tokens[t] = lastSet[t].rec
        /\ ircToken = prefixToken(tokens[t].AccessToken)

\* C27 (as stated): when the back-off after a failed refresh has elapsed, the
\* loop's next step is the refresh call itself; it does not go back to
\* compute a time to sleep until.
RetryWithoutSleepComputation ==
    [][\A t \in TokenType :
          (pc[t] = "backoff" /\ pc'[t] \notin {"backoff", "stopped", "killed"}) =>
              pc'[t] = "inflight"]_vars

\* C27: after a failed refresh the loop goes back to the top and computes its
\* wake time again; the record is as the failed call found it and is at or
\* past its refresh time, so the computed wait is zero: the timer armed after
\* the back-off is already due, no earlier than the back-off after the
\* failure, and what follows is the next refresh call.
RetryThroughZeroWait ==
    \A t \in TokenType :
        (failAt[t].set /\ pc[t] \in {"backoff", "top", "delay"}) =>
            /\ tokenDelay(t) <= now
            /\ pc[t] = "backoff" => tok[t] = tokens[t]
            /\ pc[t] \in {"top", "delay"} => now >= failAt[t].at + BackOff
            /\ pc[t] = "delay" => (wake[t] <= now /\ (~ ctxDone => ENABLED DelayElapsed(t)))

\* C27 witness: a back-off has just elapsed and the loop has armed its timer
\* again, with nothing to wait for
RetryArmedWithZeroWait ==
    \E t \in TokenType :
        /\ failAt[t].set
        /\ pc[t] = "delay"
        /\ wake[t] = now
        /\ now = failAt[t].at + BackOff
        /\ ~ ctxDone

\* The record of identity t that a start of the process would load from f
Reloaded(f, t) == LoadFromFile(f)[t]

\* The last SetTokens for t did not reach tokens.json and no later write did
FlushMissing(t) == Running /\ lastSet[t].set /\ Reloaded(file, t) # tokens[t]

NoTaskBeforeAuthorization ==
    ((\E t \in TokenType : pc[t] # "idle") \/ connPc # "off" \/ ircToken # Empty) =>
        /\ mainPc = "wait"
        /\ flowId = "none"
        /\ \A t \in TokenType : NonEmptyTokens(tokens[t]) /\ ~ srv[t].listening
        /\ \A t \in TokenType : pc[t] = "top"

\* C29 witness: the loops have been started after both identities were
\* authorized in a session of their own
TasksStartedAfterBothSessions ==
    /\ mainPc = "wait"
    /\ \A t \in TokenType : pc[t] = "top" /\ lastSet[t].set /\ hits[t] > 0
    /\ connPc = "running"

\* C30: the goroutine that signals completion is started by the handler step
\* that has written the callback page, the signal is sent in a later step of
\* that goroutine in which no response is written, and the listener is closed
\* only by server.Start after it has received the signal.
SignalAfterPageWritten ==
    [][\A t \in TokenType :
          /\ sleepers'[t] > sleepers[t] =>
                /\ req.active /\ req.to = t /\ ~ req'.active
                /\ last'.resp = "ok"
                /\ srv'[t].done = srv[t].done
                /\ srv'[t].listening = srv[t].listening
          /\ srv'[t].done > srv[t].done =>
                /\ sleepers[t] > 0 /\ sleepers'[t] = sleepers[t] - 1
                /\ req' = req /\ last' = last
                /\ srv'[t].listening = srv[t].listening
          /\ (srv[t].listening /\ ~ srv'[t].listening) =>
                /\ srv[t].done > 0 /\ srv'[t].done = srv[t].done - 1
                /\ req' = req /\ last' = last]_vars

\* C30 witness: a session's listener has been closed after its handler wrote
\* the callback page and the signal was received
ListenerClosedAfterPage ==
    \E t \in TokenType :
        /\ mainPc = "exchange" /\ flowId = t
        /\ ~ srv[t].listening
        /\ hits[t] = 1
        /\ ~ req.active
        /\ last.resp = "ok"
        /\ sleepers[t] = 0

\* C31 (as stated): the token the connection holds is an access token of the
\* bot's record; a refresh of the broadcaster never puts the broadcaster's
\* access token there.
ConnectionHoldsBotToken ==
    Running =>
        \E n \in 0 .. MaxRefresh :
            ircToken = prefixToken(AccessOf(ExpectedUser(BotTokenType), n))

\* C32: every record a refresh stores carries the user id and the user name
\* of the record the identity started with.
RefreshKeepsSubject ==
    \A t \in TokenType :
        Running =>
            /\ tokens[t].UserID = UserIDOf(ExpectedUser(t))
            /\ tokens[t].Username = ExpectedUser(t)
            /\ lastSet[t].set =>
                  /\ lastSet[t].rec.UserID = UserIDOf(ExpectedUser(t))
                  /\ lastSet[t].rec.Username = ExpectedUser(t)

\* C32 witness: a refresh has stored new tokens and the record still names
\* the account it named at the start
RenewedRecordSameSubject ==
    \E t \in TokenType :
        /\ Running
        /\ lastSet[t].set /\ tokens[t] = lastSet[t].rec
        /\ tokens[t].AccessToken = AccessOf(ExpectedUser(t), 1)
        /\ tokens[t].UserID = UserIDOf(ExpectedUser(t))

\* C33: a step of SetTokens for one identity leaves the other identity's
\* in-memory record as it was.
SetLeavesOtherRecord ==
    [][\A t \in TokenType :
          mu = t => \A o \in TokenType \ {t} : tokens'[o] = tokens[o]]_vars

\* C33 witness: a SetTokens for one identity has returned and the other
\* identity's record is still the one the process started with
OtherRecordUntouched ==
    \E t, o \in TokenType :
        /\ t # o
        /\ mu = "free"
        /\ lastSet[t].set /\ tokens[t] = lastSet[t].rec
        /\ wr[o].n = 0 /\ tokens[o] \in StartRecords(o)

\* C34: the refresh token a call in flight was made with is the one of the
\* record stored for its identity, which is the one of the last successful
\* refresh if there was one.
CallUsesStoredRefreshToken ==
    \A t \in TokenType :
        pc[t] = "inflight" =>
            /\ tok[t].RefreshToken = tokens[t].RefreshToken
            /\ tok[t].RefreshToken # Empty
            /\ lastSet[t].set => tok[t].RefreshToken = lastSet[t].rec.RefreshToken

\* C34 witness: after a successful refresh and a failed one, the retry is in
\* flight with the refresh token the successful refresh returned
RetryReusesRenewedRefreshToken ==
    \E t \in TokenType :
        /\ pc[t] = "inflight"
        /\ failAt[t].set /\ now >= failAt[t].at + BackOff
        /\ lastSet[t].set
        /\ tok[t].RefreshToken = RefreshOf(ExpectedUser(t), 1)

\* C35 (as stated): the timer a loop arms after a successful refresh lies in
\* the future, so that its next refresh call comes after a wait of non-zero
\* length.
SleepAfterRefreshNonZero ==
    [][\A t \in TokenType :
          (pc[t] = "top" /\ pc'[t] = "delay" /\ lastSet[t].set /\ ~ failAt[t].set) =>
              wake'[t] > now]_vars

\* C36: with the context already cancelled, a refresh call that returns new
\* credentials is followed by the record being stored, then by the push of
\* its access token, then by the loop stopping at the top of its next
\* iteration, unless the process ends first; no timer is armed and no call is
\* made in between.
InFlightCallCommitsAfterCancel ==
    [][\A t \in TokenType :
          ctxDone =>
             /\ (pc[t] = "inflight" /\ pc'[t] = "push") =>
                   /\ tokens'[t] = lastSet'[t].rec
                   /\ tokens'[t].AccessToken = acc'[t]
                   /\ tokens'[t].RefreshToken =
                         RefreshOf(Holder(tok[t].RefreshToken),
                                   Generation(tok[t].RefreshToken) + 1)
             /\ (pc[t] = "push" /\ pc'[t] \notin {"push", "killed"}) =>
                   /\ pc'[t] = "top"
                   /\ ircToken' = prefixToken(tokens[t].AccessToken)
             /\ (pc[t] = "top" /\ pc'[t] \notin {"top", "killed"}) =>
                   pc'[t] = "stopped"]_vars

\* C36 witness: in shutdown, the grace period has run out with a loop's call
\* in flight, the call has then returned new credentials and the record is
\* stored, about to be pushed
CommittedAfterCancel ==
    \E t \in TokenType :
        /\ mainPc = "shutdown" /\ ctxDone /\ graceLeft = 0
        /\ pc[t] = "push"
        /\ tokens[t] = lastSet[t].rec
        /\ tokens[t].AccessToken = acc[t]

\* C37: when client.Connect has returned while main waits for a signal, the
\* context is cancelled: a loop at the top of its iteration or in a wait can
\* stop at once, a loop that has stopped stays so, and main cannot return
\* before a signal has come.
ConnectFailureStopsLoopsOnly ==
    (connPc = "exited" /\ mainPc = "wait") =>
        /\ ctxDone
        /\ ~ ENABLED Shutdown
        /\ ENABLED Signal \/ now + Grace > MaxTime
        /\ \A t \in TokenType :
              /\ pc[t] \in {"delay", "backoff"} => ENABLED DelayCancelled(t)
              /\ pc[t] = "top" => ENABLED LoopTop(t)
              /\ pc[t] = "stopped" =>
                    ~ ENABLED (LoopTop(t) \/ DelayElapsed(t) \/ BackoffElapsed(t))
              /\ pc[t] \in {"top", "delay", "backoff", "inflight", "push", "stopped"}

\* C37 witness: client.Connect has returned, both loops have stopped and main
\* is still waiting for a signal
LoopsStoppedMainWaiting ==
    /\ connPc = "exited"
    /\ mainPc = "wait"
    /\ \A t \in TokenType : pc[t] = "stopped"

\* The session of server t is over: server.Start has received from s.done and
\* closed the listener, and nothing receives from s.done any more
SessionOver(t) == hits[t] > 0 /\ ~ srv[t].listening /\ Alive

\* C38 (as stated): once a session is over, no goroutine started by its
\* handler is left at s.done <- true with the channel full.
NoSenderLeftBlocked ==
    \A t \in TokenType :
        SessionOver(t) => ~ (sleepers[t] > 0 /\ srv[t].done >= DoneCap)

\* An exchange of a code with the provider in this step: by the handler
\* (getUserToken(s.code)) or by getToken after authCode (getUserToken(code))
HandlerExchanges == req.active /\ ~ req'.active /\ last'.exch
CallerExchanges == mainPc = "exchange" /\ mainPc' # "exchange"

\* C39 (as stated): a code that is sent to the provider has not been sent to
\* it before in the same session, neither by the handler nor by the caller.
CodeExchangedAtMostOnce ==
    [][/\ HandlerExchanges => req.code \notin exchanged
       /\ CallerExchanges => code \notin exchanged]_vars

\* C40: the lock is either free, and then every GetTokens can read and every
\* SetTokens still to come can take it, or it is held by exactly one SetTokens
\* that is inside its body and can take its next statement, the write of
\* tokens.json and the unlock included; no call waits for a lock whose holder
\* has returned.
StoreNeverDeadlocks ==
    /\ mu = "free" =>
          \A t \in TokenType :
              /\ wr[t].pc = "idle"
              /\ ENABLED ReadTokens(t)
              /\ wr[t].n < MaxSets => ENABLED SetLock(t)
    /\ \A t \in TokenType :
          mu = t =>
              /\ wr[t].pc \in {"locked", "half", "assigned", "saved"}
              /\ \A o \in TokenType \ {t} : wr[o].pc = "idle"
              /\ ENABLED (SetAssignTokens(t) \/ SetAssignRest(t) \/ SetSave(t) \/ SetUnlock(t))
    /\ mu \in TokenType \cup {"free"}

\* C40 witness: every SetTokens of both identities has returned, one of them
\* after a failed write, the lock is free and both callers have read the
\* records stored last
AllCallsReturned ==
    /\ mu = "free"
    /\ writeErrs > 0
    /\ \A t \in TokenType :
          /\ wr[t].n = MaxSets /\ wr[t].pc = "idle"
          /\ tok[t] = tokens[t] /\ tokens[t] = lastSet[t].rec

===========================================================================
